---------------------------- MODULE Spec2Model ----------------------------
(***************************************************************************)
(* A model of tky2jgd.py: the mesh-code geometry (lat_lon2mesh_code,       *)
(* tonari_mesh_code), the parameter table PAR with load_parameter, the     *)
(* bilinear interpolation (bilinear, interpol) and the command line entry  *)
(* point main.                                                             *)
(*                                                                         *)
(* Python floats are modelled as exact decimal fixed-point numbers: a      *)
(* number is a sequence of NL limbs <<i, f1, ..., fFL>> in base 10^4 that  *)
(* stands for i + f1/10^4 + f2/10^8 + ...; i is any integer and every f    *)
(* is in 0..9999 (so -0.5 is <<-1, 5000, 0, ...>>).  Addition,             *)
(* subtraction and multiplication are exact on the inputs the model draws; *)
(* binary rounding of the float type is not modelled.  NaN is the          *)
(* one-limb sequence.                                                      *)
(***************************************************************************)
EXTENDS Integers, Sequences, FiniteSets, TLC

\* ------------------------------------------------------------ numbers

\* Limb base of the fixed-point numbers.
Base == 10 ^ 4

\* Number of fractional limbs (4 decimal digits each).
FL == 10

NL == FL + 1

NaN == <<0>>

IsNaN(x) == Len(x) = 1

RECURSIVE Zeros(_)
Zeros(n) == IF n = 0 THEN <<>> ELSE <<0>> \o Zeros(n - 1)

\* Carry propagation from limb k leftwards, c the carry coming from the right:
\* every fractional limb is brought back into 0..Base-1.
RECURSIVE NormFrom(_, _, _)
NormFrom(s, k, c) ==
    LET v == s[k] + c
    IN  IF k = 1 THEN <<v>>
        ELSE NormFrom(s, k - 1, v \div Base) \o <<v % Base>>

Norm(s) == NormFrom(s, NL, 0)

\* int -> float
F(n) == <<n>> \o Zeros(FL)

\* The decimal literal i.aaaabbbbccccdddd
Dec(i, a, b, c, d) == <<i, a, b, c, d>> \o Zeros(FL - 4)

Zero == F(0)

\* Arithmetic on NaN gives NaN.
Add(x, y) ==
    IF IsNaN(x) \/ IsNaN(y) THEN NaN
    ELSE Norm([k \in 1..NL |-> x[k] + y[k]])

Sub(x, y) ==
    IF IsNaN(x) \/ IsNaN(y) THEN NaN
    ELSE Norm([k \in 1..NL |-> x[k] - y[k]])

Neg(x) == Sub(Zero, x)

RECURSIVE ConvAt(_, _, _, _)
ConvAt(x, y, k, i) ==
    IF i > k THEN 0 ELSE x[i] * y[k + 1 - i] + ConvAt(x, y, k, i + 1)

\* float * float
Mul(x, y) ==
    IF IsNaN(x) \/ IsNaN(y) THEN NaN
    ELSE Norm([k \in 1..NL |-> ConvAt(x, y, k, 1)])

\* Long division from limb k rightwards, r the remainder so far.
RECURSIVE DivFrom(_, _, _, _)
DivFrom(x, n, k, r) ==
    LET v == r * Base + x[k]
    IN  IF k > NL THEN <<>>
        ELSE <<v \div n>> \o DivFrom(x, n, k + 1, v % n)

\* float / int, cut after the last limb
DivInt(x, n) == IF IsNaN(x) THEN NaN ELSE DivFrom(x, n, 1, 0)

\* x < y; every comparison with NaN is false
Lt(x, y) == IF IsNaN(x) \/ IsNaN(y) THEN FALSE ELSE Sub(x, y)[1] < 0

Gt(x, y) == Lt(y, x)

IsInt(x) == \A k \in 2..NL : x[k] = 0

\* math.trunc: towards zero
Trunc(x) == IF x[1] >= 0 \/ IsInt(x) THEN x[1] ELSE x[1] + 1

\* ------------------------------------------------------------ MeshCode

MeshCode(mc1, mc2, mc3, mlat, mlon) ==
    [mesh_code1 |-> mc1, mesh_code2 |-> mc2, mesh_code3 |-> mc3,
     mod_latitude |-> mlat, mod_longitude |-> mlon]

mesh_code123(mc) ==
    mc.mesh_code1 * 10000 + mc.mesh_code2 * 100 + mc.mesh_code3

NoMesh == MeshCode(0, 0, 0, Zero, Zero)

\* ------------------------------------------------- lat_lon2mesh_code

C1_5 == Dec(1, 5000, 0, 0, 0)

\* 0.00000000001
EPS == Dec(0, 0, 0, 10, 0)

\* CarryDigits without the carry from the secondary digit into the primary.
CarryDigits_OneLevel(d1, d2, d3) ==
    IF d3 = 10 THEN <<d1, d2 + 1, 0>> ELSE <<d1, d2, d3>>

\* if d3 == 10: d2 += 1; d3 = 0; if d2 == 8: d1 += 1; d2 = 0
CarryDigits(d1, d2, d3) ==
    IF d3 = 10
    THEN IF d2 + 1 = 8 THEN <<d1 + 1, 0, 0>> ELSE <<d1, d2 + 1, 0>>
    ELSE <<d1, d2, d3>>

\* The four assert statements.
DigitsOk(lat2, lon2, lat3, lon3) ==
    /\ lat2 >= 0 /\ lat2 <= 7
    /\ lon2 >= 0 /\ lon2 <= 7
    /\ lat3 >= 0 /\ lat3 <= 9
    /\ lon3 >= 0 /\ lon3 <= 9

\* The result of a call: exc is "none" or the exception raised; digits are the
\* local variables lat1, lat2, lat3, lon1, lon2, lon3 at the asserts.
lat_lon2mesh_code(lat, lon) ==
    IF IsNaN(lat) \/ IsNaN(lon)
    THEN [exc |-> "ValueError", mc |-> NoMesh, digits |-> <<0, 0, 0, 0, 0, 0>>]
    ELSE
    LET lat1a == Trunc(Mul(lat, C1_5))
        lon1a == Trunc(lon) - 100
        lat2a == Trunc(Mul(F(8), Sub(Mul(C1_5, lat), F(lat1a))))
        lon2a == Trunc(Mul(F(8), Sub(lon, F(lon1a + 100))))
        lat3a == Trunc(Add(Mul(F(10),
                     Sub(Sub(Mul(F(12), lat), Mul(F(8), F(lat1a))), F(lat2a))),
                     EPS))
        lon3a == Trunc(Add(Mul(F(10),
                     Sub(Mul(F(8), Sub(lon, F(lon1a + 100))), F(lon2a))),
                     EPS))
        la == CarryDigits(lat1a, lat2a, lat3a)
        lo == CarryDigits(lon1a, lon2a, lon3a)
        lat1 == la[1]
        lat2 == la[2]
        lat3 == la[3]
        lon1 == lo[1]
        lon2 == lo[2]
        lon3 == lo[3]
        mlat == Sub(Sub(Sub(Mul(F(120), lat), Mul(F(80), F(lat1))),
                        F(10 * lat2)), F(lat3))
        mlon == Sub(Sub(Mul(F(80), Sub(lon, F(lon1 + 100))),
                        F(10 * lon2)), F(lon3))
    IN  IF ~DigitsOk(lat2, lon2, lat3, lon3)
        THEN [exc |-> "AssertionError", mc |-> NoMesh,
              digits |-> <<lat1, lat2, lat3, lon1, lon2, lon3>>]
        ELSE [exc |-> "none",
              mc |-> MeshCode(lat1 * 100 + lon1, lat2 * 10 + lon2,
                              lat3 * 10 + lon3, mlat, mlon),
              digits |-> <<lat1, lat2, lat3, lon1, lon2, lon3>>]

\* --------------------------------------------------- tonari_mesh_code

\* StepChain with the secondary digit carrying at 9, like the tertiary.
StepChain_Decimal(d1, d2, d3) ==
    IF d3 # 9 THEN <<d1, d2, d3 + 1>>
    ELSE IF d2 # 9 THEN <<d1, d2 + 1, 0>>
    ELSE <<d1 + 1, 0, 0>>

\* One step of a carry chain: d3 9 -> 0 carries into d2, d2 7 -> 0 into d1.
StepChain(d1, d2, d3) ==
    IF d3 # 9 THEN <<d1, d2, d3 + 1>>
    ELSE IF d2 # 7 THEN <<d1, d2 + 1, 0>>
    ELSE <<d1 + 1, 0, 0>>

\* tonari_mesh_code with the north-east neighbour's primary code built from
\* lat1 instead of lat1_tmp.
tonari_mesh_code_NELat1(mesh_code) ==
    LET lat1 == mesh_code.mesh_code1 \div 100
        lon1 == mesh_code.mesh_code1 % 100
        lat2 == mesh_code.mesh_code2 \div 10
        lon2 == mesh_code.mesh_code2 % 10
        lat3 == mesh_code.mesh_code3 \div 10
        lon3 == mesh_code.mesh_code3 % 10
        e == StepChain(lon1, lon2, lon3)
        n == StepChain(lat1, lat2, lat3)
    IN  [self |-> mesh_code,
         east |-> MeshCode(lat1 * 100 + e[1], lat2 * 10 + e[2],
                           lat3 * 10 + e[3], Zero, Zero),
         north |-> MeshCode(n[1] * 100 + lon1, n[2] * 10 + lon2,
                            n[3] * 10 + lon3, Zero, Zero),
         north_east |-> MeshCode(lat1 * 100 + e[1], n[2] * 10 + e[2],
                                 n[3] * 10 + e[3], Zero, Zero)]

\* self is the argument object as the call leaves it.
tonari_mesh_code(mesh_code) ==
    LET lat1 == mesh_code.mesh_code1 \div 100
        lon1 == mesh_code.mesh_code1 % 100
        lat2 == mesh_code.mesh_code2 \div 10
        lon2 == mesh_code.mesh_code2 % 10
        lat3 == mesh_code.mesh_code3 \div 10
        lon3 == mesh_code.mesh_code3 % 10
        e == StepChain(lon1, lon2, lon3)
        n == StepChain(lat1, lat2, lat3)
    IN  [self |-> mesh_code,
         east |-> MeshCode(lat1 * 100 + e[1], lat2 * 10 + e[2],
                           lat3 * 10 + e[3], Zero, Zero),
         north |-> MeshCode(n[1] * 100 + lon1, n[2] * 10 + lon2,
                            n[3] * 10 + lon3, Zero, Zero),
         north_east |-> MeshCode(n[1] * 100 + e[1], n[2] * 10 + e[2],
                                 n[3] * 10 + e[3], Zero, Zero)]

\* ------------------------------------------------------- load_parameter

\* A decimal token of a parameter line as PAR_RE matches it: sign, integer
\* digits, fraction digits (four of them).
Tok(neg, ip, fp) == [neg |-> neg, ip |-> ip, fp |-> fp]

\* float(m.group(i))
ToFloat(t) ==
    IF t.neg THEN Neg(Dec(t.ip, t.fp, 0, 0, 0)) ELSE Dec(t.ip, t.fp, 0, 0, 0)

\* A line that PAR_RE matches, and one it does not (header, comment, blank).
Rec(code, dB, dL) == [match |-> TRUE, code |-> code, dB |-> dB, dL |-> dL]

Junk == [match |-> FALSE, code |-> 0, dB |-> Tok(FALSE, 0, 0), dL |-> Tok(FALSE, 0, 0)]

EmptyPAR == [c \in {} |-> <<Zero, Zero>>]

\* PAR = {}; then PAR[int(code)] = (float, float) for every matching line in
\* file order, so the last line of a code wins.
load_parameter(lines) ==
    LET hits == {i \in 1..Len(lines) : lines[i].match}
        last(c) == CHOOSE i \in hits :
                      /\ lines[i].code = c
                      /\ \A j \in hits : lines[j].code = c => j <= i
    IN  [c \in {lines[i].code : i \in hits} |->
            <<ToFloat(lines[last(c)].dB), ToFloat(lines[last(c)].dL)>>]

\* ----------------------------------------------------------- interpol

\* interpol with D = u4 - u2 - u3 - u1.
interpol_SignSlip(u1, u2, u3, u4, X0to1, Y0to1) ==
    LET a == u1
        B == Sub(u2, u1)
        C == Sub(u3, u1)
        D == Sub(Sub(Sub(u4, u2), u3), u1)
    IN  Add(Add(Add(a, Mul(B, X0to1)), Mul(C, Y0to1)),
            Mul(Mul(D, X0to1), Y0to1))

interpol(u1, u2, u3, u4, X0to1, Y0to1) ==
    LET a == u1
        B == Sub(u2, u1)
        C == Sub(u3, u1)
        D == Add(Sub(Sub(u4, u2), u3), u1)
    IN  Add(Add(Add(a, Mul(B, X0to1)), Mul(C, Y0to1)),
            Mul(Mul(D, X0to1), Y0to1))

\* ----------------------------------------------------------- bilinear

\* OutsideBox without the test of the eastern bound.
OutsideBox_NoEastTest(lat, lon) ==
    \/ Lt(lat, F(20))
    \/ Gt(lat, F(46))
    \/ Lt(lon, F(120))

\* if lat < 20 or lat > 46 or lon < 120 or lon > 154
OutsideBox(lat, lon) ==
    \/ Lt(lat, F(20))
    \/ Gt(lat, F(46))
    \/ Lt(lon, F(120))
    \/ Gt(lon, F(154))

\* AnyNotInPAR without the test of the north-east neighbour.
AnyNotInPAR_ThreeKeys(P, MC0, MCE, MCN, MCNE) ==
    \/ mesh_code123(MC0) \notin DOMAIN P
    \/ mesh_code123(MCE) \notin DOMAIN P
    \/ mesh_code123(MCN) \notin DOMAIN P

\* The test of the four keys before the table is indexed.
AnyNotInPAR(P, MC0, MCE, MCN, MCNE) ==
    \/ mesh_code123(MC0) \notin DOMAIN P
    \/ mesh_code123(MCE) \notin DOMAIN P
    \/ mesh_code123(MCN) \notin DOMAIN P
    \/ mesh_code123(MCNE) \notin DOMAIN P

\* What a call of bilinear leaves behind: exc is "none" or the exception that
\* left it; none says the value is (None, None), and else (dB, dL) is the value;
\* located says lat_lon2mesh_code was called, tested and indexed count the
\* accesses to PAR; MC0 is the object lat_lon2mesh_code returned as
\* tonari_mesh_code left it.
BilRet(exc, none, dB, dL, located, tested, indexed, MC0, MCE, MCN, MCNE) ==
    [exc |-> exc, none |-> none, dB |-> dB, dL |-> dL, located |-> located,
     tested |-> tested, indexed |-> indexed,
     MC0 |-> MC0, MCE |-> MCE, MCN |-> MCN, MCNE |-> MCNE]

NoCall ==
    BilRet("none", TRUE, Zero, Zero, FALSE, FALSE, FALSE,
           NoMesh, NoMesh, NoMesh, NoMesh)

\* Interpolate with the east and the north neighbour's entries exchanged.
Interpolate_Swapped(P, MC0, MCE, MCN, MCNE) ==
    LET k0 == mesh_code123(MC0)
        kE == mesh_code123(MCE)
        kN == mesh_code123(MCN)
        kNE == mesh_code123(MCNE)
    IN  IF {k0, kE, kN, kNE} \subseteq DOMAIN P
        THEN BilRet("none", FALSE,
                 interpol(P[k0][1], P[kN][1], P[kE][1], P[kNE][1],
                          MC0.mod_longitude, MC0.mod_latitude),
                 interpol(P[k0][2], P[kN][2], P[kE][2], P[kNE][2],
                          MC0.mod_longitude, MC0.mod_latitude),
                 TRUE, TRUE, TRUE, MC0, MCE, MCN, MCNE)
        ELSE BilRet("KeyError", TRUE, Zero, Zero, TRUE, TRUE, TRUE,
                    MC0, MCE, MCN, MCNE)

\* The four PAR[...] and the two calls of interpol; PAR[...] raises KeyError
\* for an absent key.
Interpolate(P, MC0, MCE, MCN, MCNE) ==
    LET k0 == mesh_code123(MC0)
        kE == mesh_code123(MCE)
        kN == mesh_code123(MCN)
        kNE == mesh_code123(MCNE)
    IN  IF {k0, kE, kN, kNE} \subseteq DOMAIN P
        THEN BilRet("none", FALSE,
                 interpol(P[k0][1], P[kE][1], P[kN][1], P[kNE][1],
                          MC0.mod_longitude, MC0.mod_latitude),
                 interpol(P[k0][2], P[kE][2], P[kN][2], P[kNE][2],
                          MC0.mod_longitude, MC0.mod_latitude),
                 TRUE, TRUE, TRUE, MC0, MCE, MCN, MCNE)
        ELSE BilRet("KeyError", TRUE, Zero, Zero, TRUE, TRUE, TRUE,
                    MC0, MCE, MCN, MCNE)

bilinear(P, lat, lon) ==
    IF OutsideBox(lat, lon)
    THEN BilRet("none", TRUE, Zero, Zero, FALSE, FALSE, FALSE,
                NoMesh, NoMesh, NoMesh, NoMesh)
    ELSE
    LET loc == lat_lon2mesh_code(lat, lon)
        t == tonari_mesh_code(loc.mc)
    IN  IF loc.exc # "none"
        THEN BilRet(loc.exc, TRUE, Zero, Zero, TRUE, FALSE, FALSE,
                    NoMesh, NoMesh, NoMesh, NoMesh)
        ELSE IF AnyNotInPAR(P, t.self, t.east, t.north, t.north_east)
        THEN BilRet("none", TRUE, Zero, Zero, TRUE, TRUE, FALSE,
                    t.self, t.east, t.north, t.north_east)
        ELSE Interpolate(P, t.self, t.east, t.north, t.north_east)

\* TableAfterRead of a table that inserts a default entry for a key it is
\* asked for and does not hold (a defaultdict).
TableAfterRead_Inserting(P, key) ==
    [k \in DOMAIN P \cup {key} |-> IF k \in DOMAIN P THEN P[k] ELSE <<Zero, Zero>>]

\* The table after `key not in PAR` or PAR[key]: reading a dict does not
\* insert the key.
TableAfterRead(P, key) == P

\* PAR after a call of bilinear.  The `or` chain stops at the first absent key.
RECURSIVE TableAfterReads(_, _, _)
TableAfterReads(P, keys, i) ==
    IF i > Len(keys) THEN P
    ELSE IF keys[i] \notin DOMAIN P THEN TableAfterRead(P, keys[i])
    ELSE TableAfterReads(TableAfterRead(P, keys[i]), keys, i + 1)

bilinear_PAR(P, lat, lon) ==
    LET loc == lat_lon2mesh_code(lat, lon)
        t == tonari_mesh_code(loc.mc)
    IN  IF OutsideBox(lat, lon) \/ loc.exc # "none" THEN P
        ELSE TableAfterReads(P, <<mesh_code123(t.self), mesh_code123(t.east),
                                  mesh_code123(t.north),
                                  mesh_code123(t.north_east)>>, 1)

\* ---------------------------------------------------------------- inputs

\* Latitudes: the box bounds and points next to them, the south-west corner
\* of a cell, points inside a cell, a point whose north neighbour carries
\* into the primary code, 13-digit decimals just south of a cell edge, a
\* negative latitude and NaN.
Lats ==
    { F(20), Dec(19, 9999, 0, 0, 0), Dec(19, 5000, 0, 0, 0),
      F(36), Dec(36, 40, 0, 0, 0), Dec(36, 833, 3333, 3333, 3000),
      Dec(36, 6625, 0, 0, 0), Dec(36, 6666, 6666, 6666, 6000),
      F(46), Dec(46, 1, 0, 0, 0), F(47), Neg(Dec(0, 5000, 0, 0, 0)), NaN }

\* Longitudes, likewise; 138.45 is the cell edge of the source's comment.
Lons ==
    { F(120), Dec(119, 5000, 0, 0, 0), Dec(99, 9937, 5000, 0, 0),
      F(138), Dec(138, 50, 0, 0, 0), Dec(138, 4500, 0, 0, 0),
      Dec(138, 4499, 9999, 9999, 9000), Dec(138, 9937, 5000, 0, 0),
      Dec(138, 9999, 9999, 9999, 9000),
      F(154), F(155), Neg(Dec(0, 5000, 0, 0, 0)), NaN }

\* The cells the parameter files cover: the codes of the cell, of its east,
\* north and north-east neighbour.
CellCodes ==
    << <<54380000, 54380001, 54380010, 54380011>>,
       <<54380306, 54380307, 54380316, 54380317>>,
       <<54387799, 54397090, 55380709, 55390000>>,
       <<69540000, 69540001, 69540010, 69540011>>,
       <<70384000, 70384001, 70384010, 70384011>>,
       <<54550000, 54550001, 54550010, 54550011>>,
       <<29382000, 29382001, 29382010, 29382011>>,
       <<54190400, 54190401, 54190410, 54190411>>,
       <<55390000, 55390001, 55390010, 55390011>> >>

CellOf(i) == ((i - 1) \div 4) + 1

RoleOf(i) == ((i - 1) % 4) + 1

NLines == 4 * Len(CellCodes)

ValB(cell, role) ==
    Tok(FALSE, 12, <<3450, 4450, 5450, IF cell = 1 THEN 6450 ELSE 8450>>[role])

ValL(cell, role) ==
    Tok(TRUE, 5, <<6780, 5780, 4780, IF cell = 1 THEN 3780 ELSE 1780>>[role])

\* A header line, then one record per code; code 55390000 is listed twice.
FileVaried ==
    <<Junk>> \o
    [i \in 1..NLines |->
        Rec(CellCodes[CellOf(i)][RoleOf(i)],
            ValB(CellOf(i), RoleOf(i)), ValL(CellOf(i), RoleOf(i)))]

\* The same codes, every record with the same pair of values.
FileConst ==
    [i \in 1..NLines |->
        Rec(CellCodes[CellOf(i)][RoleOf(i)], ValB(1, 1), ValL(1, 1))]

\* FileVaried with one corner of each of the first four cells unreadable as a
\* record: the north-east, the east, the north, the cell's own.
FilePartial ==
    [i \in 1..NLines |->
        IF <<CellOf(i), RoleOf(i)>> \in {<<1, 4>>, <<2, 2>>, <<3, 3>>, <<4, 1>>}
        THEN Junk
        ELSE Rec(CellCodes[CellOf(i)][RoleOf(i)],
                 ValB(CellOf(i), RoleOf(i)), ValL(CellOf(i), RoleOf(i)))]

Files == {FileVaried, FileConst, FilePartial}

Source(state, lines) == [state |-> state, lines |-> lines]

OkSources == {Source("ok", f) : f \in Files}

\* args.par: a path that does not exist, one that exists and cannot be opened
\* as a file, or a readable file.
Sources == {Source("missing", <<>>), Source("unreadable", <<>>)} \cup OkSources

\* ----------------------------------------------------------------- state

VARIABLES
    pc,      \* where the run stands
    PAR,     \* the module's global table
    source,  \* the parameter source
    lat,     \* the latitude of the call
    lon,     \* the longitude of the call
    ret,     \* what the last call of bilinear left behind
    out,     \* standard output: the pairs printed
    err,     \* standard error: the messages printed
    rc,      \* what main returned, -1 while it has not
    nload,   \* calls of load_parameter so far
    nbil,    \* calls of bilinear so far
    first,   \* the first call of bilinear since the table was loaded
    loc,     \* what the last call of lat_lon2mesh_code left behind
    nb,      \* the last result of tonari_mesh_code
    nbE,     \* tonari_mesh_code of nb.east
    nbN      \* tonari_mesh_code of nb.north

vars == <<pc, PAR, source, lat, lon, ret, out, err, rc, nload, nbil, first,
          loc, nb, nbE, nbN>>

NoLoc == [exc |-> "none", mc |-> NoMesh, digits |-> <<0, 0, 0, 0, 0, 0>>]

NoNb == [self |-> NoMesh, east |-> NoMesh, north |-> NoMesh,
         north_east |-> NoMesh]

NoFirst == [set |-> FALSE, lat |-> Zero, lon |-> Zero, ret |-> NoCall]

\* ------------------------------------------------------------------ main

Init ==
    /\ pc = "start"
    /\ PAR = EmptyPAR
    /\ source \in Sources
    /\ lat \in Lats
    /\ lon \in Lons
    /\ ret = NoCall
    /\ out = <<>>
    /\ err = <<>>
    /\ rc = -1
    /\ nload = 0
    /\ nbil = 0
    /\ first = NoFirst
    /\ loc = NoLoc
    /\ nb = NoNb
    /\ nbE = NoNb
    /\ nbN = NoNb

\* if not os.path.exists(args.par): print(..., file=sys.stderr); return 1
MainMissing ==
    /\ pc = "start"
    /\ source.state = "missing"
    /\ err' = Append(err, "Error: Parameter file not found.")
    /\ rc' = 1
    /\ pc' = "exit"
    /\ UNCHANGED <<PAR, source, lat, lon, ret, out, nload, nbil, first,
                   loc, nb, nbE, nbN>>

\* else: load_parameter(args.par).  PAR = {} comes before open(), which raises
\* when the path cannot be opened; the exception leaves main.
MainLoad ==
    /\ pc = "start"
    /\ source.state # "missing"
    /\ nload' = nload + 1
    /\ IF source.state = "ok"
       THEN /\ PAR' = load_parameter(source.lines)
            /\ pc' = "loaded"
            /\ err' = err
       ELSE /\ PAR' = EmptyPAR
            /\ pc' = "raised"
            /\ err' = Append(err, "IOError")
    /\ UNCHANGED <<source, lat, lon, ret, out, rc, nbil, first,
                   loc, nb, nbE, nbN>>

\* dB, dL = bilinear(args.latitude, args.longitude)
MainBilinear ==
    /\ pc = "loaded"
    /\ ret' = bilinear(PAR, lat, lon)
    /\ PAR' = bilinear_PAR(PAR, lat, lon)
    /\ nbil' = nbil + 1
    /\ IF ret'.exc = "none"
       THEN pc' = "computed" /\ err' = err
       ELSE pc' = "raised" /\ err' = Append(err, ret'.exc)
    /\ UNCHANGED <<source, lat, lon, out, rc, nload, first, loc, nb, nbE, nbN>>

\* Printed with longitude before latitude.
Printed_LonFirst(r, la, lo) ==
    IF r.none THEN <<F(-9999), F(-9999)>>
    ELSE <<Add(lo, DivInt(r.dL, 3600)), Add(la, DivInt(r.dB, 3600))>>

\* What main prints for the value bilinear returned.
Printed(r, la, lo) ==
    IF r.none THEN <<F(-9999), F(-9999)>>
    ELSE <<Add(la, DivInt(r.dB, 3600)), Add(lo, DivInt(r.dL, 3600))>>

\* print(...); return 0
MainPrint ==
    /\ pc = "computed"
    /\ out' = Append(out, Printed(ret, lat, lon))
    /\ rc' = 0
    /\ pc' = "exit"
    /\ UNCHANGED <<PAR, source, lat, lon, ret, err, nload, nbil, first,
                   loc, nb, nbE, nbN>>

Next == MainMissing \/ MainLoad \/ MainBilinear \/ MainPrint

Spec == Init /\ [][Next]_vars

\* ------------------------------------------- properties of a run of main

\* bilinear has been called in this run and has returned or raised.
Called == nbil > 0

\* The keys of the cell of (lat, lon) and of its three neighbours.
KeysOf(la, lo) ==
    LET t == tonari_mesh_code(lat_lon2mesh_code(la, lo).mc)
    IN  [sw |-> mesh_code123(t.self), e |-> mesh_code123(t.east),
         n |-> mesh_code123(t.north), ne |-> mesh_code123(t.north_east)]

\* lat and lon are numbers in [20, 46] x [120, 154], the bounds included.
InBox ==
    /\ ~IsNaN(lat) /\ ~IsNaN(lon)
    /\ ~Lt(lat, F(20)) /\ ~Lt(F(46), lat)
    /\ ~Lt(lon, F(120)) /\ ~Lt(F(154), lon)

\* C1: whenever lat < 20 or lat > 46 or lon < 120 or lon > 154, whatever PAR
\* holds, bilinear returns (None, None) without calling lat_lon2mesh_code and
\* without testing or indexing PAR; a point in the box, the bounds 20, 46, 120
\* and 154 included, is not short-circuited: its mesh code is computed.
C1_OutsideBoxShortCircuits ==
    Called =>
        /\ ( \/ Lt(lat, F(20)) \/ Lt(F(46), lat)
             \/ Lt(lon, F(120)) \/ Lt(F(154), lon) )
           => /\ ret.exc = "none" /\ ret.none
              /\ ~ret.located /\ ~ret.tested /\ ~ret.indexed
        /\ InBox => ret.located

\* C1: a point north of the box whose cell and neighbours are all in PAR.
C1_Witness ==
    /\ Called
    /\ Lt(F(46), lat)
    /\ {KeysOf(lat, lon).sw, KeysOf(lat, lon).e, KeysOf(lat, lon).n,
        KeysOf(lat, lon).ne} \subseteq DOMAIN PAR
    /\ ret.none

\* C2: for a point inside the box bilinear never raises, returns (None, None)
\* exactly when one of the four keys of MC0, MCE, MCN, MCNE is not in PAR, and
\* returns a pair of numbers when all four are.
C2_NoneIffKeyAbsent ==
    (Called /\ InBox) =>
        /\ ret.exc = "none"
        /\ ret.MC0 = lat_lon2mesh_code(lat, lon).mc
        /\ mesh_code123(ret.MC0) = KeysOf(lat, lon).sw
        /\ mesh_code123(ret.MCE) = KeysOf(lat, lon).e
        /\ mesh_code123(ret.MCN) = KeysOf(lat, lon).n
        /\ mesh_code123(ret.MCNE) = KeysOf(lat, lon).ne
        /\ ret.none <=> ( \/ mesh_code123(ret.MC0) \notin DOMAIN PAR
                          \/ mesh_code123(ret.MCE) \notin DOMAIN PAR
                          \/ mesh_code123(ret.MCN) \notin DOMAIN PAR
                          \/ mesh_code123(ret.MCNE) \notin DOMAIN PAR )
        /\ ~ret.none => /\ Len(ret.dB) = NL /\ Len(ret.dL) = NL

\* C2: a point in the box whose north-east neighbour alone is missing.
C2_Witness ==
    /\ Called /\ InBox
    /\ ret.none
    /\ {mesh_code123(ret.MC0), mesh_code123(ret.MCE), mesh_code123(ret.MCN)}
           \subseteq DOMAIN PAR
    /\ mesh_code123(ret.MCNE) \notin DOMAIN PAR

\* bilinear returned a pair of numbers.
Covered == Called /\ ret.exc = "none" /\ ~ret.none

\* C6: when the four entries of MC0, MCE, MCN, MCNE hold the same value k in a
\* channel, bilinear returns k in that channel wherever the point lies in the
\* cell.
C6_ConstantCorners ==
    Covered =>
        LET u1 == PAR[KeysOf(lat, lon).sw]
            u2 == PAR[KeysOf(lat, lon).e]
            u3 == PAR[KeysOf(lat, lon).n]
            u4 == PAR[KeysOf(lat, lon).ne]
        IN  \A ch \in {1, 2} :
                (u2[ch] = u1[ch] /\ u3[ch] = u1[ch] /\ u4[ch] = u1[ch])
                    => (IF ch = 1 THEN ret.dB ELSE ret.dL) = u1[ch]

\* C6: four equal corners and a point off both edges of its cell.
C6_Witness ==
    /\ Covered
    /\ PAR[KeysOf(lat, lon).e] = PAR[KeysOf(lat, lon).sw]
    /\ PAR[KeysOf(lat, lon).n] = PAR[KeysOf(lat, lon).sw]
    /\ PAR[KeysOf(lat, lon).ne] = PAR[KeysOf(lat, lon).sw]
    /\ ret.MC0.mod_longitude # Zero
    /\ ret.MC0.mod_latitude # Zero

\* C7: with X = mod_longitude and Y = mod_latitude, bilinear interpolates with
\* u1 the entry of MC0, u2 of the east, u3 of the north and u4 of the north-east
\* neighbour, in each channel: u1 + (u2-u1)*X + (u3-u1)*Y + (u4-u2-u3+u1)*X*Y.
\* At X = 0, Y = 0 the value is MC0's entry; at Y = 0 it is u1 + (u2-u1)*X and
\* at X = 0 it is u1 + (u3-u1)*Y.
C7_CornerWiring ==
    Covered =>
        LET u1 == PAR[KeysOf(lat, lon).sw]
            u2 == PAR[KeysOf(lat, lon).e]
            u3 == PAR[KeysOf(lat, lon).n]
            u4 == PAR[KeysOf(lat, lon).ne]
            X == lat_lon2mesh_code(lat, lon).mc.mod_longitude
            Y == lat_lon2mesh_code(lat, lon).mc.mod_latitude
        IN  \A ch \in {1, 2} :
            LET v == IF ch = 1 THEN ret.dB ELSE ret.dL
            IN  /\ v = Add(Add(Add(u1[ch], Mul(Sub(u2[ch], u1[ch]), X)),
                               Mul(Sub(u3[ch], u1[ch]), Y)),
                           Mul(Mul(Add(Sub(Sub(u4[ch], u2[ch]), u3[ch]),
                                       u1[ch]), X), Y))
                /\ (X = Zero /\ Y = Zero) => v = u1[ch]
                /\ Y = Zero => v = Add(u1[ch], Mul(Sub(u2[ch], u1[ch]), X))
                /\ X = Zero => v = Add(u1[ch], Mul(Sub(u3[ch], u1[ch]), Y))

\* C7: a point on the south edge of its cell, east of the corner, whose east
\* and north neighbours hold different values.
C7_Witness ==
    /\ Covered
    /\ ret.MC0.mod_latitude = Zero
    /\ ret.MC0.mod_longitude # Zero
    /\ PAR[KeysOf(lat, lon).e] # PAR[KeysOf(lat, lon).n]
    /\ ret.dB = Add(PAR[KeysOf(lat, lon).sw][1],
                    Mul(Sub(PAR[KeysOf(lat, lon).e][1],
                            PAR[KeysOf(lat, lon).sw][1]),
                        ret.MC0.mod_longitude))

\* The run of main when the parameter source does not exist.
C8_Missing ==
    source.state = "missing" =>
        /\ pc \in {"start", "exit"}
        /\ nload = 0 /\ nbil = 0 /\ out = <<>>
        /\ pc = "exit" => rc = 1

\* The run of main that loads, calls bilinear once, prints and returns 0.
C8_Converts ==
    /\ pc \in {"start", "loaded", "computed", "exit"}
    /\ nload = (IF pc = "start" THEN 0 ELSE 1)
    /\ nbil = (IF pc \in {"start", "loaded"} THEN 0 ELSE 1)
    /\ pc # "start" => PAR = load_parameter(source.lines)
    /\ pc # "exit" => out = <<>> /\ rc = -1
    /\ pc = "exit" =>
        /\ rc = 0
        /\ ret.none <=> out = << <<F(-9999), F(-9999)>> >>
        /\ ~ret.none => out = << <<Add(lat, DivInt(ret.dB, 3600)),
                                   Add(lon, DivInt(ret.dL, 3600))>> >>

GeoLats == (Lats \ {NaN}) \cup {F(0), F(-30)}

\* The finite coordinates, zero, and a longitude whose east neighbour leaves
\* the two digits of the primary code.
GeoLons == (Lons \ {NaN}) \cup {F(0), Dec(199, 9937, 5000, 0, 0)}

InitLocate ==
    /\ pc = "geo"
    /\ PAR = EmptyPAR
    /\ source = Source("missing", <<>>)
    /\ lat \in GeoLats
    /\ lon \in GeoLons
    /\ ret = NoCall
    /\ out = <<>>
    /\ err = <<>>
    /\ rc = -1
    /\ nload = 0
    /\ nbil = 0
    /\ first = NoFirst
    /\ loc = NoLoc
    /\ nb = NoNb
    /\ nbE = NoNb
    /\ nbN = NoNb

\* MC0 = lat_lon2mesh_code(lat, lon)
Locate ==
    /\ pc = "geo"
    /\ loc' = lat_lon2mesh_code(lat, lon)
    /\ pc' = "located"
    /\ UNCHANGED <<PAR, source, lat, lon, ret, out, err, rc, nload, nbil,
                   first, nb, nbE, nbN>>

\* MCE, MCN, MCNE = tonari_mesh_code(MC0)
Neighbors ==
    /\ pc = "located"
    /\ loc.exc = "none"
    /\ nb' = tonari_mesh_code(loc.mc)
    /\ pc' = "neighbors"
    /\ UNCHANGED <<PAR, source, lat, lon, ret, out, err, rc, nload, nbil,
                   first, loc, nbE, nbN>>

NextLocate == Locate \/ Neighbors

SpecLocate == InitLocate /\ [][NextLocate]_vars

\* ------------------------------------------ tonari_mesh_code on mesh codes

\* The primary latitude and longitude parts the mesh codes are drawn from.
Lat1s == {54}

Lon1s == {38, 98}

InitMesh ==
    /\ pc = "mesh"
    /\ PAR = EmptyPAR
    /\ source = Source("missing", <<>>)
    /\ lat = Zero
    /\ lon = Zero
    /\ ret = NoCall
    /\ out = <<>>
    /\ err = <<>>
    /\ rc = -1
    /\ nload = 0
    /\ nbil = 0
    /\ first = NoFirst
    /\ \E lat1 \in Lat1s, lon1 \in Lon1s, lat2 \in 0..7, lon2 \in 0..7,
          lat3 \in 0..9, lon3 \in 0..9 :
          loc = [exc |-> "none",
                 mc |-> MeshCode(lat1 * 100 + lon1, lat2 * 10 + lon2,
                                 lat3 * 10 + lon3, Zero, Zero),
                 digits |-> <<lat1, lat2, lat3, lon1, lon2, lon3>>]
    /\ nb = NoNb
    /\ nbE = NoNb
    /\ nbN = NoNb

\* tonari_mesh_code(mc)
Tonari ==
    /\ pc = "mesh"
    /\ nb' = tonari_mesh_code(loc.mc)
    /\ pc' = "stepped"
    /\ UNCHANGED <<PAR, source, lat, lon, ret, out, err, rc, nload, nbil,
                   first, loc, nbE, nbN>>

\* tonari_mesh_code of the east and of the north neighbour
TonariOfNeighbors ==
    /\ pc = "stepped"
    /\ nbE' = tonari_mesh_code(nb.east)
    /\ nbN' = tonari_mesh_code(nb.north)
    /\ pc' = "stepped2"
    /\ UNCHANGED <<PAR, source, lat, lon, ret, out, err, rc, nload, nbil,
                   first, loc, nb>>

NextMesh == Tonari \/ TonariOfNeighbors

SpecMesh == InitMesh /\ [][NextMesh]_vars

\* ------------------------------------------- a host calling the library

\* load_parameter is called at most this often.
MaxLoads == 1

\* bilinear is called at most this often.
MaxCalls == 3

HostLats == {F(36), Dec(36, 40, 0, 0, 0), F(47)}

HostLons == {F(138), Dec(138, 50, 0, 0, 0), Dec(138, 4499, 9999, 9999, 9000)}

InitHost ==
    /\ pc = "host"
    /\ PAR = EmptyPAR
    /\ source = Source("missing", <<>>)
    /\ lat = Zero
    /\ lon = Zero
    /\ ret = NoCall
    /\ out = <<>>
    /\ err = <<>>
    /\ rc = -1
    /\ nload = 0
    /\ nbil = 0
    /\ first = NoFirst
    /\ loc = NoLoc
    /\ nb = NoNb
    /\ nbE = NoNb
    /\ nbN = NoNb

\* load_parameter(par_file) on a readable file
HostLoad ==
    /\ pc = "host"
    /\ nload < MaxLoads
    /\ \E src \in OkSources :
          /\ source' = src
          /\ PAR' = load_parameter(src.lines)
    /\ nload' = nload + 1
    /\ first' = NoFirst
    /\ UNCHANGED <<pc, lat, lon, ret, out, err, rc, nbil, loc, nb, nbE, nbN>>

\* bilinear(la, lo), before or after the table is loaded
HostBilinear ==
    /\ pc = "host"
    /\ nbil < MaxCalls
    /\ \E la \in HostLats, lo \in HostLons :
          /\ lat' = la
          /\ lon' = lo
          /\ ret' = bilinear(PAR, la, lo)
          /\ PAR' = bilinear_PAR(PAR, la, lo)
          /\ first' = IF first.set THEN first
                      ELSE [set |-> TRUE, lat |-> la, lon |-> lo, ret |-> ret']
    /\ nbil' = nbil + 1
    /\ UNCHANGED <<pc, source, out, err, rc, nload, loc, nb, nbE, nbN>>

NextHost == HostLoad \/ HostBilinear

SpecHost == InitHost /\ [][NextHost]_vars

\* --------------------------------------------- properties of the geometry

\* lat_lon2mesh_code has been called on (lat, lon).
Located == pc \in {"located", "neighbors"}

\* The digits are those the asserts ask for, and the codes pack them.
WellFormed(r) ==
    /\ r.exc = "none"
    /\ r.digits[2] \in 0..7 /\ r.digits[5] \in 0..7
    /\ r.digits[3] \in 0..9 /\ r.digits[6] \in 0..9
    /\ r.mc.mesh_code1 = r.digits[1] * 100 + r.digits[4]
    /\ r.mc.mesh_code2 = r.digits[2] * 10 + r.digits[5]
    /\ r.mc.mesh_code3 = r.digits[3] * 10 + r.digits[6]
    /\ r.mc.mesh_code2 \div 10 \in 0..7 /\ r.mc.mesh_code2 % 10 \in 0..7
    /\ r.mc.mesh_code3 \div 10 \in 0..9 /\ r.mc.mesh_code3 % 10 \in 0..9

InUnitInterval(x) == ~Lt(x, Zero) /\ Lt(x, F(1))

\* C4: for every (lat, lon) in the box the offsets lat_lon2mesh_code returns
\* satisfy 0 <= mod_latitude < 1 and 0 <= mod_longitude < 1, also where the
\* nudge changes the tertiary digit or triggers the carry.
C4_OffsetsInUnitInterval ==
    (Located /\ InBox /\ loc.exc = "none") =>
        /\ InUnitInterval(loc.mc.mod_latitude)
        /\ InUnitInterval(loc.mc.mod_longitude)

\* The cell index along one axis, and the digits of an index.
Idx(d1, d2, d3) == d1 * 80 + d2 * 10 + d3

Digits(n) == <<n \div 80, (n % 80) \div 10, n % 10>>

\* The mesh code of latitude digits la and longitude digits lo, offset (0, 0).
Packed(la, lo) ==
    MeshCode(la[1] * 100 + lo[1], la[2] * 10 + lo[2], la[3] * 10 + lo[3],
             Zero, Zero)

\* C5: for a MeshCode lat_lon2mesh_code produced, the east neighbour is the
\* code with the longitude digits advanced by one cell (with carry) and the
\* latitude digits unchanged, the north neighbour the code with the latitude
\* digits advanced and the longitude digits unchanged, the north-east one has
\* both advanced; all three have secondary digits in 0..7, tertiary digits in
\* 0..9 and offset (0, 0).
C5_NeighboursAdvanceOneStep ==
    pc = "neighbors" =>
        LET la == <<loc.digits[1], loc.digits[2], loc.digits[3]>>
            lo == <<loc.digits[4], loc.digits[5], loc.digits[6]>>
            laN == Digits(Idx(la[1], la[2], la[3]) + 1)
            loE == Digits(Idx(lo[1], lo[2], lo[3]) + 1)
        IN  /\ nb.east = Packed(la, loE)
            /\ nb.north = Packed(laN, lo)
            /\ nb.north_east = Packed(laN, loE)
            /\ \A m \in {nb.east, nb.north, nb.north_east} :
                  /\ m.mesh_code2 \div 10 \in 0..7 /\ m.mesh_code2 % 10 \in 0..7
                  /\ m.mesh_code3 \div 10 \in 0..9 /\ m.mesh_code3 % 10 \in 0..9
                  /\ m.mod_latitude = Zero /\ m.mod_longitude = Zero

\* C5: both chains carry from the tertiary through the secondary digit into
\* the primary part.
C5_Witness ==
    /\ pc = "neighbors"
    /\ loc.digits[2] = 7 /\ loc.digits[3] = 9
    /\ loc.digits[5] = 7 /\ loc.digits[6] = 9
    /\ nb.north_east.mesh_code1 = loc.mc.mesh_code1 + 101
    /\ nb.north_east.mesh_code2 = 0
    /\ nb.north_east.mesh_code3 = 0

\* C9: for a MeshCode with secondary digits in 0..7, tertiary digits in 0..9
\* and primary longitude part below 99, the north-east neighbour has the
\* mesh_code123 of the north neighbour of the east neighbour and of the east
\* neighbour of the north neighbour.
C9_StepsCommute ==
    (pc = "stepped2" /\ loc.digits[4] < 99) =>
        /\ mesh_code123(nb.north_east) = mesh_code123(nbE.north)
        /\ mesh_code123(nb.north_east) = mesh_code123(nbN.east)

\* C9: both steps carry into the primary parts.
C9_Witness ==
    /\ pc = "stepped2"
    /\ loc.digits = <<54, 7, 9, 98, 7, 9>>
    /\ mesh_code123(nb.north_east) = 55990000
    /\ mesh_code123(nbE.north) = 55990000
    /\ mesh_code123(nbN.east) = 55990000

\* ---------------------------------------------- properties of the host

\* C10: once load_parameter has built the table, calls of bilinear leave PAR
\* as load_parameter built it, tonari_mesh_code leaves the MeshCode it is
\* given as lat_lon2mesh_code returned it, and a call with the (lat, lon) of
\* an earlier call returns what that call returned, whatever was called in
\* between.
C10_TableReadOnly ==
    /\ nload > 0 => PAR = load_parameter(source.lines)
    /\ nload = 0 => PAR = EmptyPAR
    /\ (nbil > 0 /\ ret.tested) => ret.MC0 = lat_lon2mesh_code(lat, lon).mc
    /\ (first.set /\ first.lat = lat /\ first.lon = lon) => ret = first.ret

\* C10: a call repeats the first call's point after a call on another point,
\* on a loaded table that covers the point.
C10_Witness ==
    /\ nload > 0
    /\ nbil = MaxCalls
    /\ first.set /\ first.lat = lat /\ first.lon = lon
    /\ ~ret.none
    /\ ret = first.ret

=============================================================================
